---- MODULE Spec2Model ----
(***************************************************************************)
(* Model of the IRC -> Discord bridge of lib/bot.js (class Bot).           *)
(*                                                                         *)
(* Strings that are only compared are TLA+ strings.  Channel names are     *)
(* sequences of characters, because the code case-folds them               *)
(* (String.prototype.toLowerCase).  Message texts are sequences of tokens  *)
(* (words, IRC control codes, markdown markers).                           *)
(***************************************************************************)
EXTENDS Integers, Sequences, FiniteSets, TLC

VARIABLES
  options,          \* the object handed to new Bot(options)
  pc,               \* "new" | "failed" | "constructed" | "connected"
  assigned,         \* names of the properties assigned on `this`
  ircNickname, ircChannel, ircStatusNotices, announceSelfJoin,
  autoSendCommands, \* this.* configuration copies
  channelUsers,     \* this.channelUsers : lower-cased channel -> Set of nicks
  event,            \* the last operation / IRC event delivered
  prevUsers,        \* this.channelUsers just before that event
  sink,             \* discordClient.sendMessage calls made by that event
  ircCalls,         \* ircClient.send / ircClient.join calls made by that event
  error,            \* what that operation threw (NoError if it returned)
  namesSince,       \* history: a Names event for the target channel arrived
                    \* and the bridge's own nick has not parted it since
  replayAll,        \* history: the members of the target channel replayed
                    \* from the events since that Names event
  replayOthers      \* history: the same, a Quit of the bridge's own nick ignored

vars == << options, pc, assigned, ircNickname, ircChannel,
           ircStatusNotices, announceSelfJoin, autoSendCommands, channelUsers,
           event, prevUsers, sink, ircCalls, error, namesSince,
           replayAll, replayOthers >>

history == << namesSince, replayAll, replayOthers >>

fieldsOfThis == << ircNickname, ircChannel, ircStatusNotices, announceSelfJoin,
                   autoSendCommands >>

----------------------------------------------------------------------------
(* Bounds of the model *)

MaxQuitChannels == 2      \* longest channel list of a Quit event
MaxAutoSend == 2          \* longest autoSendCommands list

----------------------------------------------------------------------------
(* Data *)

Chan(c) == << "#", c >>

Channels == { Chan("a"), Chan("A"), Chan("b") }

Nicks == { "bot", "alice", "bob" }

Reasons == { "bye", "timeout" }

\* "^B" stands for the IRC bold control code \x02
Texts == { << "hi" >>, << "^B", "hi", "^B" >> }

Modes == { "", "@" }

Commands == { << "PRIVMSG", "NickServ", "IDENTIFY" >>, << "MODE", "bot", "+x" >> }

RECURSIVE SeqsUpTo(_, _)
SeqsUpTo(S, n) ==
  IF n = 0 THEN { << >> }
  ELSE LET shorter == SeqsUpTo(S, n - 1)
       IN shorter \cup { Append(s, x) : s \in { t \in shorter : Len(t) = n - 1 }, x \in S }

EmptyMap == [ c \in {} |-> {} ]

NoError == << "none" >>
TypeError == << "TypeError" >>
ConfigurationError(field) == << "ConfigurationError", "Missing configuration field", field >>

NoEvent == [ type |-> "none" ]

----------------------------------------------------------------------------
(* String.prototype.toLowerCase *)

LowerChar(c) ==
  CASE c = "A" -> "a"
    [] c = "B" -> "b"
    [] OTHER -> c

toLowerCase(s) == [ i \in DOMAIN s |-> LowerChar(s[i]) ]

----------------------------------------------------------------------------
(* Constructor *)

REQUIRED_FIELDS == << "ircNickname", "ircServer", "ircChannel", "discordId", "discordToken" >>

\* variant: only an undefined key counts as missing (options[field] === undefined)
Falsy_UndefinedOnly(o, field) == field \notin o.defined

\* !options[field]: the key is undefined, or its value is the empty string
Falsy(o, field) ==
  \/ field \notin o.defined
  \/ IF field = "ircChannel" THEN o[field] = << >> ELSE o[field] = ""

\* REQUIRED_FIELDS.forEach with a throw: index of the first falsy field, 0 if none
FirstMissing(o) ==
  LET bad == { i \in DOMAIN REQUIRED_FIELDS : Falsy(o, REQUIRED_FIELDS[i]) }
  IN IF bad = {} THEN 0 ELSE CHOOSE i \in bad : \A j \in bad : i <= j

ConstructorFields ==
  { "ircNickname", "ircServer", "ircChannel", "ircOptions", "discordId",
    "discordToken", "discordClient", "commandCharacters", "channels",
    "ircStatusNotices", "announceSelfJoin", "autoSendCommands", "channelUsers" }

Constructor ==
  /\ pc = "new"
  /\ event' = [ type |-> "new Bot" ]
  /\ prevUsers' = channelUsers
  /\ sink' = << >>
  /\ ircCalls' = << >>
  /\ IF FirstMissing(options) # 0
     THEN /\ error' = ConfigurationError(REQUIRED_FIELDS[FirstMissing(options)])
          /\ pc' = "failed"
          /\ UNCHANGED << assigned, fieldsOfThis, channelUsers >>
     ELSE /\ error' = NoError
          /\ pc' = "constructed"
          /\ assigned' = ConstructorFields
          /\ ircNickname' = options.ircNickname
          /\ ircChannel' = options.ircChannel
          /\ ircStatusNotices' = options.ircStatusNotices
          /\ announceSelfJoin' = options.announceSelfJoin
          /\ autoSendCommands' = options.autoSendCommands
          /\ channelUsers' = EmptyMap
  /\ UNCHANGED << options, history >>

----------------------------------------------------------------------------
(* connect() and attachListeners() *)

Connect ==
  /\ pc = "constructed"
  /\ event' = [ type |-> "connect" ]
  /\ prevUsers' = channelUsers
  /\ sink' = << >>
  /\ ircCalls' = << >>
  /\ assigned' = assigned \cup { "ircClient" }
  /\ pc' = "connected"
     \* every ircClient.on(...) above line 154 has run when this.discord,
     \* which is never assigned, is dereferenced
  /\ \E loggerDebug \in BOOLEAN :       \* logger.level === 'debug'
       error' = IF loggerDebug THEN TypeError ELSE NoError
  /\ UNCHANGED << options, fieldsOfThis, channelUsers, history >>

----------------------------------------------------------------------------
(* Outbound relay *)

formatFromIRCToDiscord(text) ==
  [ i \in DOMAIN text |-> IF text[i] = "^B" THEN "**" ELSE text[i] ]

sendToDiscord(author, channel, text) ==
  IF channel # ircChannel THEN << >>
  ELSE << [ content |-> formatFromIRCToDiscord(text),
            options |-> { << "username", author >> } ] >>

sendExactToDiscord(channel, text) ==
  IF channel # ircChannel THEN << >>
  ELSE << [ content |-> text, options |-> {} ] >>

----------------------------------------------------------------------------
(* Results of a listener *)

Outcome(users, calls, irc, err) ==
  [ users |-> users, sink |-> calls, irc |-> irc, err |-> err ]

Return == Outcome(channelUsers, << >>, << >>, NoError)

Throw(err) == Outcome(channelUsers, << >>, << >>, err)

Put(m, k, v) == [ c \in DOMAIN m \cup { k } |-> IF c = k THEN v ELSE m[c] ]

Delete(m, k) == [ c \in DOMAIN m \ { k } |-> m[c] ]

----------------------------------------------------------------------------
(* Listeners registered by attachListeners() *)

JoinText(nick) == << "*", nick, "* has joined the channel" >>
PartText(nick, reason) == << "*", nick, "* has left the channel (", reason, ")" >>
QuitText(nick, reason) == << "*", nick, "* has quit (", reason, ")" >>

\* variant: the commands are sent last to first
OnRegistered_Reversed ==
  Outcome(channelUsers, << >>,
          [ i \in DOMAIN autoSendCommands |->
              << "send", autoSendCommands[Len(autoSendCommands) + 1 - i] >> ],
          NoError)

OnRegistered ==
  Outcome(channelUsers, << >>,
          [ i \in DOMAIN autoSendCommands |-> << "send", autoSendCommands[i] >> ],
          NoError)

OnError == Return

OnMessage(author, to, text) ==
  Outcome(channelUsers, sendToDiscord(author, to, text), << >>, NoError)

OnNotice(author, to, text) ==
  Outcome(channelUsers, sendToDiscord(author, to, << "*" >> \o text \o << "*" >>),
          << >>, NoError)

OnAction(author, to, text) ==
  Outcome(channelUsers, sendToDiscord(author, to, << "_" >> \o text \o << "_" >>),
          << >>, NoError)

\* variant: the bridge's own nick is added to the set like any other
OnJoin_AddsSelf(channelName, nick) ==
  LET channel == toLowerCase(channelName) IN
  IF channel # ircChannel THEN Return
  ELSE IF ~ircStatusNotices THEN Return
  ELSE IF nick = ircNickname /\ ~announceSelfJoin THEN Return
  ELSE IF channel \notin DOMAIN channelUsers THEN Throw(TypeError)
  ELSE Outcome(Put(channelUsers, channel, channelUsers[channel] \cup { nick }),
               sendExactToDiscord(channel, JoinText(nick)), << >>, NoError)

OnJoin(channelName, nick) ==
  LET channel == toLowerCase(channelName) IN
  IF channel # ircChannel THEN Return
  ELSE IF ~ircStatusNotices THEN Return
  ELSE IF nick = ircNickname /\ ~announceSelfJoin THEN Return
  ELSE IF nick # ircNickname /\ channel \notin DOMAIN channelUsers
       THEN Throw(TypeError)     \* undefined.add(nick)
  ELSE Outcome(IF nick # ircNickname
               THEN Put(channelUsers, channel, channelUsers[channel] \cup { nick })
               ELSE channelUsers,
               sendExactToDiscord(channel, JoinText(nick)), << >>, NoError)

\* variant: the bridge's own nick is handled like any other nick
OnPart_NoSelfCase(channelName, nick, reason) ==
  LET channel == toLowerCase(channelName) IN
  IF channel # ircChannel THEN Return
  ELSE IF ~ircStatusNotices THEN Return
  ELSE Outcome(IF channel \in DOMAIN channelUsers
               THEN Put(channelUsers, channel, channelUsers[channel] \ { nick })
               ELSE channelUsers,
               sendExactToDiscord(channel, PartText(nick, reason)), << >>, NoError)

OnPart(channelName, nick, reason) ==
  LET channel == toLowerCase(channelName) IN
  IF channel # ircChannel THEN Return
  ELSE IF ~ircStatusNotices THEN Return
  ELSE IF nick = ircNickname
       THEN Outcome(Delete(channelUsers, channel), << >>, << >>, NoError)
  ELSE Outcome(IF channel \in DOMAIN channelUsers
               THEN Put(channelUsers, channel, channelUsers[channel] \ { nick })
               ELSE channelUsers,
               sendExactToDiscord(channel, PartText(nick, reason)), << >>, NoError)

\* variant: the nick is looked up in the sets as they were before the event
RECURSIVE QuitLoop_StaleSets(_, _, _, _, _, _)
QuitLoop_StaleSets(channels, i, nick, reason, users, calls) ==
  IF i > Len(channels) THEN Outcome(users, calls, << >>, NoError)
  ELSE LET channel == toLowerCase(channels[i]) IN
       IF channel \notin DOMAIN channelUsers
       THEN QuitLoop_StaleSets(channels, i + 1, nick, reason, users, calls)
       ELSE IF nick \notin channelUsers[channel]
       THEN QuitLoop_StaleSets(channels, i + 1, nick, reason, users, calls)
       ELSE QuitLoop_StaleSets(channels, i + 1, nick, reason,
                     Put(users, channel, users[channel] \ { nick }),
                     calls \o sendExactToDiscord(channel, QuitText(nick, reason)))

\* variant: the result of Set.delete is ignored, every tracked channel relays
RECURSIVE QuitLoop_IgnoreDelete(_, _, _, _, _, _)
QuitLoop_IgnoreDelete(channels, i, nick, reason, users, calls) ==
  IF i > Len(channels) THEN Outcome(users, calls, << >>, NoError)
  ELSE LET channel == toLowerCase(channels[i]) IN
       IF channel \notin DOMAIN users
       THEN QuitLoop_IgnoreDelete(channels, i + 1, nick, reason, users, calls)
       ELSE QuitLoop_IgnoreDelete(channels, i + 1, nick, reason,
                     Put(users, channel, users[channel] \ { nick }),
                     calls \o sendExactToDiscord(channel, QuitText(nick, reason)))

\* channels.forEach(...) of the quit listener, from position i on
RECURSIVE QuitLoop(_, _, _, _, _, _)
QuitLoop(channels, i, nick, reason, users, calls) ==
  IF i > Len(channels) THEN Outcome(users, calls, << >>, NoError)
  ELSE LET channel == toLowerCase(channels[i]) IN
       IF channel \notin DOMAIN users
       THEN QuitLoop(channels, i + 1, nick, reason, users, calls)
       ELSE IF nick \notin users[channel]      \* Set.delete returned false
       THEN QuitLoop(channels, i + 1, nick, reason, users, calls)
       ELSE QuitLoop(channels, i + 1, nick, reason,
                     Put(users, channel, users[channel] \ { nick }),
                     calls \o sendExactToDiscord(channel, QuitText(nick, reason)))

OnQuit(nick, reason, channels) ==
  IF ~ircStatusNotices \/ nick = ircNickname THEN Return
  ELSE QuitLoop(channels, 1, nick, reason, channelUsers, << >>)

\* variant: the member list of any channel is recorded
OnNames_AnyChannel(channelName, nicks) ==
  LET channel == toLowerCase(channelName) IN
  IF ~ircStatusNotices THEN Return
  ELSE Outcome(Put(channelUsers, channel, DOMAIN nicks), << >>, << >>, NoError)

\* variant: the member list is recorded whatever ircStatusNotices is
OnNames_IgnoreFlag(channelName, nicks) ==
  LET channel == toLowerCase(channelName) IN
  IF channel # ircChannel THEN Return
  ELSE Outcome(Put(channelUsers, channel, DOMAIN nicks), << >>, << >>, NoError)

OnNames(channelName, nicks) ==
  LET channel == toLowerCase(channelName) IN
  IF channel # ircChannel THEN Return
  ELSE IF ~ircStatusNotices THEN Return
  ELSE Outcome(Put(channelUsers, channel, DOMAIN nicks), << >>, << >>, NoError)

OnInvite(channel, from) ==
  IF channel # ircChannel THEN Return
  ELSE Throw(TypeError)          \* this.invertedMapping is never assigned

----------------------------------------------------------------------------
(* Delivery of one IRC event to its listener *)

\* History only (no code computes it): the channel name equals the configured
\* one when letter case is ignored.  It drives namesSince and the properties.
IsTarget(channelName) == toLowerCase(channelName) = toLowerCase(ircChannel)

\* History only: the members of the target channel according to the events,
\* from the list r replayed so far.  A Names event starts the list, the
\* bridge's own Part ends it; selfQuits tells whether a Quit of the bridge's
\* own nick removes it like any other.
Replay(r, ev, selfQuits) ==
  IF ~ircStatusNotices THEN r
  ELSE CASE ev.type = "names" /\ IsTarget(ev.channel) -> DOMAIN ev.nicks
         [] ev.type = "join" /\ IsTarget(ev.channel) ->
              IF namesSince /\ ev.nick # ircNickname THEN r \cup { ev.nick } ELSE r
         [] ev.type = "part" /\ IsTarget(ev.channel) ->
              IF ev.nick = ircNickname THEN {} ELSE r \ { ev.nick }
         [] ev.type = "quit" /\ (\E i \in DOMAIN ev.channels : IsTarget(ev.channels[i])) ->
              IF ev.nick = ircNickname /\ ~selfQuits THEN r ELSE r \ { ev.nick }
         [] OTHER -> r

Deliver(ev, out, since) ==
  /\ pc = "connected"
  /\ event' = ev
  /\ prevUsers' = channelUsers
  /\ channelUsers' = out.users
  /\ sink' = out.sink
  /\ ircCalls' = out.irc
  /\ error' = out.err
  /\ namesSince' = since
  /\ replayAll' = Replay(replayAll, ev, TRUE)
  /\ replayOthers' = Replay(replayOthers, ev, FALSE)
  /\ UNCHANGED << options, pc, assigned, fieldsOfThis >>

Registered ==
  Deliver([ type |-> "registered" ], OnRegistered, namesSince)

ErrorEvent ==
  Deliver([ type |-> "error" ], OnError, namesSince)

Message ==
  \E author \in Nicks, to \in Channels, text \in Texts :
    Deliver([ type |-> "message", nick |-> author, channel |-> to, text |-> text ],
            OnMessage(author, to, text), namesSince)

Notice ==
  \E author \in Nicks, to \in Channels, text \in Texts :
    Deliver([ type |-> "notice", nick |-> author, channel |-> to, text |-> text ],
            OnNotice(author, to, text), namesSince)

Action ==
  \E author \in Nicks, to \in Channels, text \in Texts :
    Deliver([ type |-> "action", nick |-> author, channel |-> to, text |-> text ],
            OnAction(author, to, text), namesSince)

Join ==
  \E channelName \in Channels, nick \in Nicks :
    Deliver([ type |-> "join", nick |-> nick, channel |-> channelName ],
            OnJoin(channelName, nick), namesSince)

Part ==
  \E channelName \in Channels, nick \in Nicks, reason \in Reasons :
    Deliver([ type |-> "part", nick |-> nick, channel |-> channelName,
              reason |-> reason ],
            OnPart(channelName, nick, reason),
            IF IsTarget(channelName) /\ nick = ircNickname THEN FALSE ELSE namesSince)

Quit ==
  \E nick \in Nicks, reason \in Reasons, channels \in SeqsUpTo(Channels, MaxQuitChannels) :
    Deliver([ type |-> "quit", nick |-> nick, reason |-> reason,
              channels |-> channels ],
            OnQuit(nick, reason, channels), namesSince)

Names ==
  \E channelName \in Channels, members \in SUBSET Nicks :
    \E nicks \in [ members -> Modes ] :
      Deliver([ type |-> "names", channel |-> channelName, nicks |-> nicks ],
              OnNames(channelName, nicks),
              IF IsTarget(channelName) /\ ircStatusNotices THEN TRUE ELSE namesSince)

Invite ==
  \E channel \in Channels, from \in Nicks :
    Deliver([ type |-> "invite", nick |-> from, channel |-> channel ],
            OnInvite(channel, from), namesSince)

----------------------------------------------------------------------------
(* Specification *)

\* keys a configuration file may set to a string
StringKeys == { "ircNickname", "ircServer", "ircChannel", "discordId", "discordToken" }

\* the empty string, as the value of key k
EmptyString(k) == IF k = "ircChannel" THEN << >> ELSE ""

OptionsSet ==
  { o \in [ defined : SUBSET StringKeys,
            ircNickname : { "", "bot" },
            ircServer : { "", "irc.example.org" },
            ircChannel : { << >>, Chan("a"), Chan("A") },
            discordId : { "", "id" },
            discordToken : { "", "token" },
            ircStatusNotices : BOOLEAN,
            announceSelfJoin : BOOLEAN,
            autoSendCommands : SeqsUpTo(Commands, MaxAutoSend) ] :
      \* an undefined key has no value; a key is given as the empty string
      \* only in configurations that define every key
      /\ \A k \in StringKeys : k \notin o.defined => o[k] = EmptyString(k)
      /\ \A k \in o.defined : o[k] = EmptyString(k) => o.defined = StringKeys
      \* autoSendCommands is read by the 'registered' listener alone, which
      \* reads neither flag: a non-empty list is paired with one setting of them
      /\ o.autoSendCommands # << >> => ~o.ircStatusNotices /\ ~o.announceSelfJoin }

Init ==
  /\ options \in OptionsSet
  /\ pc = "new"
  /\ assigned = {}
  /\ ircNickname = ""
  /\ ircChannel = << >>
  /\ ircStatusNotices = FALSE
  /\ announceSelfJoin = FALSE
  /\ autoSendCommands = << >>
  /\ channelUsers = EmptyMap
  /\ event = NoEvent
  /\ prevUsers = EmptyMap
  /\ sink = << >>
  /\ ircCalls = << >>
  /\ error = NoError
  /\ namesSince = FALSE
  /\ replayAll = {}
  /\ replayOthers = {}

Next ==
  \/ Constructor
  \/ Connect
  \/ Registered
  \/ ErrorEvent
  \/ Message
  \/ Notice
  \/ Action
  \/ Join
  \/ Part
  \/ Quit
  \/ Names
  \/ Invite

Spec == Init /\ [][Next]_vars

----------------------------------------------------------------------------
(* Vocabulary of the properties *)

\* the key under which the target channel's membership set is kept
TargetKey == toLowerCase(ircChannel)

\* the target channel has a membership set in map m
HasSet(m) == \E c \in DOMAIN m : toLowerCase(c) = TargetKey

Delivered(types) == pc = "connected" /\ event.type \in types

ExactRelay(text) == [ content |-> text, options |-> {} ]

----------------------------------------------------------------------------
(* C1 *)

MissingKey(k) == k \notin options.defined \/ options[k] = EmptyString(k)

\* C1: if a required field of the configuration is missing or empty, the
\* construction fails with a ConfigurationError that names a missing field,
\* and nothing is assigned on the instance (no Discord sink, no membership
\* state), nor is connect() ever run (no IRC client).
C1_MissingFieldFails ==
  (\E k \in StringKeys : MissingKey(k)) =>
    /\ pc \in { "new", "failed" }
    /\ assigned = {}
    /\ event.type \in { "none", "new Bot" }
    /\ pc = "failed" =>
         /\ Len(error) = 3
         /\ error[1] = "ConfigurationError"
         /\ error[3] \in StringKeys
         /\ MissingKey(error[3])

\* the constructor has rejected a configuration whose only flaw is an empty token
C1_Witness ==
  /\ pc = "failed"
  /\ options.defined = StringKeys
  /\ options.discordToken = ""
  /\ \A k \in StringKeys \ { "discordToken" } : ~MissingKey(k)
  /\ error = ConfigurationError("discordToken")

----------------------------------------------------------------------------
(* C2 *)

\* C2: a Join on the target channel by a nick other than the bridge's own,
\* with ircStatusNotices true, leaves the nick in the channel's membership set
\* and makes exactly one exact relay "*<nick>* has joined the channel".
\* Stated for a target channel configured in lower case, where the letter
\* case of the configuration plays no part.
C2_JoinTracksAndRelays ==
  ( /\ Delivered({ "join" })
    /\ ircChannel = toLowerCase(ircChannel)
    /\ toLowerCase(event.channel) = TargetKey
    /\ event.nick # ircNickname
    /\ ircStatusNotices )
  => /\ TargetKey \in DOMAIN channelUsers
     /\ event.nick \in channelUsers[TargetKey]
     /\ sink = << ExactRelay(<< "*", event.nick, "* has joined the channel" >>) >>

----------------------------------------------------------------------------
(* C3 *)

\* the event met no membership set for (one of) its channel(s)
NoSetFor(ev) ==
  IF ev.type = "quit"
  THEN \E i \in DOMAIN ev.channels : toLowerCase(ev.channels[i]) \notin DOMAIN prevUsers
  ELSE toLowerCase(ev.channel) \notin DOMAIN prevUsers

\* C3: a Join, Part or Quit that arrives while its channel has no membership
\* set is tolerated: the listener returns without throwing.
C3_MissingSetTolerated ==
  (Delivered({ "join", "part", "quit" }) /\ NoSetFor(event)) => error = NoError

----------------------------------------------------------------------------
(* C4 *)

\* C4: after a Part on the target channel by the bridge's own nick the target
\* channel has no membership set and the event made no call to the Discord
\* sink, whatever ircStatusNotices is.
C4_SelfPartDropsSet ==
  ( /\ Delivered({ "part" })
    /\ IsTarget(event.channel)
    /\ event.nick = ircNickname )
  => /\ ~HasSet(channelUsers)
     /\ ircChannel \notin DOMAIN channelUsers
     /\ sink = << >>

\* the bridge has parted a channel whose members it was tracking
C4_Witness ==
  /\ Delivered({ "part" })
  /\ IsTarget(event.channel)
  /\ event.nick = ircNickname
  /\ ircStatusNotices
  /\ HasSet(prevUsers)
  /\ prevUsers[TargetKey] # {}

----------------------------------------------------------------------------
(* C5 *)

\* C5: a Join by the bridge's own nick leaves the membership map as it was;
\* and when, with ircStatusNotices true, a Join of the own nick on the target
\* channel is followed by a Names on the target channel listing the own nick
\* and two others, the membership set is then exactly those three nicks.
C5_SelfJoinThenNames ==
  [][ /\ (pc' = "connected" /\ event'.type = "join" /\ event'.nick = ircNickname')
           => channelUsers' = channelUsers
      /\ ( /\ Delivered({ "join" })
           /\ IsTarget(event.channel)
           /\ event.nick = ircNickname
           /\ ircStatusNotices
           /\ event'.type = "names"
           /\ IsTarget(event'.channel)
           /\ DOMAIN event'.nicks = Nicks )
         => /\ TargetKey \in DOMAIN channelUsers'
            /\ channelUsers'[TargetKey] = Nicks ]_vars

----------------------------------------------------------------------------
(* C6 *)

\* listed channel i of the Quit event is the target channel, had a membership
\* set before the event, and the quitting nick was in it
QuitCounts(i) ==
  LET channel == toLowerCase(event.channels[i]) IN
  /\ IsTarget(event.channels[i])
  /\ channel \in DOMAIN prevUsers
  /\ event.nick \in prevUsers[channel]

\* C6: for a Quit of another nick with ircStatusNotices true, the relay
\* "*<nick>* has quit (<reason>)" is made (once) exactly when a listed channel
\* is the target channel with a membership set that held the nick; afterwards
\* the nick is in no membership set of a listed channel.
C6_QuitRelay ==
  ( /\ Delivered({ "quit" })
    /\ event.nick # ircNickname
    /\ ircStatusNotices )
  => /\ sink = IF \E i \in DOMAIN event.channels : QuitCounts(i)
               THEN << ExactRelay(<< "*", event.nick, "* has quit (",
                                     event.reason, ")" >>) >>
               ELSE << >>
     /\ \A i \in DOMAIN event.channels :
          toLowerCase(event.channels[i]) \in DOMAIN channelUsers
            => event.nick \notin channelUsers[toLowerCase(event.channels[i])]
     /\ error = NoError

\* a Quit over [A, B] of a nick tracked in A only has relayed once
C6_Witness ==
  /\ Delivered({ "quit" })
  /\ event.nick # ircNickname
  /\ ircStatusNotices
  /\ Len(event.channels) = 2
  /\ QuitCounts(1)
  /\ ~IsTarget(event.channels[2])
  /\ Len(sink) = 1
  /\ prevUsers[TargetKey] = { "alice", "bob" }
  /\ channelUsers[TargetKey] = { "alice", "bob" } \ { event.nick }

----------------------------------------------------------------------------
(* C7 *)

\* the text handed to the Formatter for a Message, Notice or Action
Wrapped(ev) ==
  CASE ev.type = "message" -> ev.text
    [] ev.type = "notice" -> << "*" >> \o ev.text \o << "*" >>
    [] ev.type = "action" -> << "_" >> \o ev.text \o << "_" >>

\* C7: whatever ircStatusNotices and the membership state, a Message, Notice
\* or Action addressed to the target channel makes exactly one sink call, with
\* the author as display name and the formatted text as body; one addressed to
\* another channel makes none.
C7_MessageRelay ==
  Delivered({ "message", "notice", "action" }) =>
    sink = IF IsTarget(event.channel)
           THEN << [ content |-> formatFromIRCToDiscord(Wrapped(event)),
                     options |-> { << "username", event.nick >> } ] >>
           ELSE << >>

----------------------------------------------------------------------------
(* C8 *)

\* the event left no trace
Discarded ==
  /\ sink = << >>
  /\ ircCalls = << >>
  /\ channelUsers = prevUsers
  /\ error = NoError

\* C8: channel matching ignores letter case for every event type and every
\* configured spelling: an event is discarded exactly when its channel differs
\* from the configured channel after case folding.  Stated on the events whose
\* processing always shows: Message, Notice, Action, Names and the Part of
\* another nick (the last two with ircStatusNotices true).
C8_CaseInsensitiveFilter ==
  Delivered({ "message", "notice", "action", "join", "part", "names", "invite" }) =>
    IF ~IsTarget(event.channel) THEN Discarded
    ELSE /\ event.type \in { "message", "notice", "action" } => Len(sink) = 1
         /\ (event.type = "names" /\ ircStatusNotices)
              => /\ HasSet(channelUsers)
                 /\ channelUsers[TargetKey] = DOMAIN event.nicks
         /\ (event.type = "part" /\ ircStatusNotices /\ event.nick # ircNickname)
              => Len(sink) = 1

----------------------------------------------------------------------------
(* C9 *)

\* C9: the target channel has a membership set exactly when a Names event
\* for it was processed with ircStatusNotices true and the bridge's own nick
\* has not parted it since; only a Names event creates a set and only the
\* bridge's own Part deletes one.
C9_SetIffNamesSince ==
  pc = "connected" =>
    /\ HasSet(channelUsers) <=> namesSince
    /\ DOMAIN channelUsers \ DOMAIN prevUsers # {} => event.type = "names"
    /\ DOMAIN prevUsers \ DOMAIN channelUsers # {}
         => event.type = "part" /\ event.nick = ircNickname

----------------------------------------------------------------------------
(* C10 *)

\* C10: a Names event for the target channel, in any letter case, with
\* ircStatusNotices true, makes the set kept under the lower-cased channel name
\* exactly the listed nicknames, and makes no sink call.
C10_NamesReplacesSet ==
  ( /\ Delivered({ "names" })
    /\ IsTarget(event.channel)
    /\ ircStatusNotices )
  => /\ toLowerCase(event.channel) \in DOMAIN channelUsers
     /\ channelUsers[toLowerCase(event.channel)] = DOMAIN event.nicks
     /\ sink = << >>

----------------------------------------------------------------------------
(* C11 *)

\* C11: an event other than Registered sends no command to the IRC connection
\* (so none is sent before the first Registered), and every Registered event,
\* a repeated one included, sends each configured auto-send command exactly
\* once, in the order of the configuration list, within that one listener call.
C11_AutoSendOnRegistered ==
  pc = "connected" =>
    /\ event.type = "registered" =>
         /\ Len(ircCalls) = Len(options.autoSendCommands)
         /\ \A i \in DOMAIN ircCalls :
              ircCalls[i] = << "send", options.autoSendCommands[i] >>
         /\ error = NoError
    /\ event.type # "registered" =>
         \A i \in DOMAIN ircCalls : ircCalls[i][1] # "send"

\* a Registered event has sent two different commands, in the configured order
C11_Witness ==
  /\ Delivered({ "registered" })
  /\ Len(options.autoSendCommands) = 2
  /\ options.autoSendCommands[1] # options.autoSendCommands[2]
  /\ ircCalls = << << "send", options.autoSendCommands[1] >>,
                   << "send", options.autoSendCommands[2] >> >>

----------------------------------------------------------------------------
(* C12 *)

\* C12: an Invite naming the configured target channel never ends in an error:
\* it is either ignored or answered by exactly one join request for that
\* channel; an Invite naming another channel issues no join request.
C12_InviteNeverFails ==
  Delivered({ "invite" }) =>
    /\ error = NoError
    /\ IF IsTarget(event.channel)
       THEN ircCalls \in { << >>, << << "join", event.channel >> >> }
       ELSE ircCalls = << >>

----------------------------------------------------------------------------
(* C13 *)

\* C13: a Part on the target channel by a nick other than the bridge's own,
\* with ircStatusNotices true, makes exactly one exact relay
\* "*<nick>* has left the channel (<reason>)" and leaves the nick out of the
\* membership set, whether or not the nick was tracked and whether or not a
\* set exists (an absent set stays absent).
C13_PartAlwaysRelays ==
  ( /\ Delivered({ "part" })
    /\ IsTarget(event.channel)
    /\ event.nick # ircNickname
    /\ ircStatusNotices )
  => /\ sink = << ExactRelay(<< "*", event.nick, "* has left the channel (",
                                event.reason, ")" >>) >>
     /\ HasSet(channelUsers) <=> HasSet(prevUsers)
     /\ HasSet(channelUsers) => event.nick \notin channelUsers[TargetKey]
     /\ error = NoError

----------------------------------------------------------------------------
(* C14 *)

\* channel name c had no membership set before the event, or one without nick
Untracked(c, nick) ==
  \/ toLowerCase(c) \notin DOMAIN prevUsers
  \/ nick \notin prevUsers[toLowerCase(c)]

\* C14 as claimed: a Part or a Quit whose channel (every listed channel, for a
\* Quit) has no membership set, or one that does not hold the departing nick,
\* makes no call to the Discord sink.
C14_PartAndQuitDropped ==
  /\ (Delivered({ "part" }) /\ Untracked(event.channel, event.nick))
       => sink = << >>
  /\ (Delivered({ "quit" })
        /\ \A i \in DOMAIN event.channels : Untracked(event.channels[i], event.nick))
       => sink = << >>

\* C14 as amended: a Quit for which every listed channel has no membership
\* set, or one that does not hold the quitting nick, makes no call to the
\* Discord sink, changes no membership set and raises no error.
C14_QuitDropped ==
  ( /\ Delivered({ "quit" })
    /\ \A i \in DOMAIN event.channels : Untracked(event.channels[i], event.nick) )
  => /\ sink = << >>
     /\ channelUsers = prevUsers
     /\ error = NoError

\* a Quit naming the target channel, of a nick its membership set did not hold
C14_Witness ==
  /\ Delivered({ "quit" })
  /\ ircStatusNotices
  /\ event.nick # ircNickname
  /\ HasSet(prevUsers)
  /\ prevUsers[TargetKey] # {}
  /\ \E i \in DOMAIN event.channels : IsTarget(event.channels[i])
  /\ \A i \in DOMAIN event.channels : Untracked(event.channels[i], event.nick)
  /\ sink = << >>

----------------------------------------------------------------------------
(* C15 *)

\* C15: with ircStatusNotices false the membership map stays empty whatever
\* Join, Part, Quit and Names events arrive, and none of them calls the Discord
\* sink: only Message, Notice and Action events do.
C15_NoticesOffNoTracking ==
  (pc = "connected" /\ ~options.ircStatusNotices) =>
    /\ channelUsers = EmptyMap
    /\ sink # << >> => event.type \in { "message", "notice", "action" }

\* with ircStatusNotices false, a Names event listing members of the target
\* channel, spelled as configured, has left the map empty
C15_Witness ==
  /\ Delivered({ "names" })
  /\ ~options.ircStatusNotices
  /\ event.channel = ircChannel
  /\ ircChannel = toLowerCase(ircChannel)
  /\ DOMAIN event.nicks = Nicks
  /\ channelUsers = EmptyMap
  /\ sink = << >>

----------------------------------------------------------------------------
(* C16 *)

\* C16: a Join on the target channel by the bridge's own nick makes the exact
\* relay "*<nick>* has joined the channel" when ircStatusNotices and
\* announceSelfJoin are both true, and no sink call when either is false.
C16_SelfJoinAnnounced ==
  ( /\ Delivered({ "join" })
    /\ IsTarget(event.channel)
    /\ event.nick = ircNickname )
  => sink = IF options.ircStatusNotices /\ options.announceSelfJoin
            THEN << ExactRelay(<< "*", event.nick, "* has joined the channel" >>) >>
            ELSE << >>

----------------------------------------------------------------------------
(* C17 *)

\* Message, Notice, Action, Invite, Registered and Error leave the map alone
OnlyPresenceEventsTrack ==
  Delivered({ "message", "notice", "action", "invite", "registered", "error" })
    => channelUsers = prevUsers

\* C17 as claimed: with ircStatusNotices true and a membership set present,
\* the set holds exactly the nicks that were in the most recent Names list or
\* joined after it (the bridge's own nick excepted) and have not since parted
\* the target channel or quit with the target channel in their channel list;
\* Message, Notice, Action, Invite, Registered and Error never change it.
C17_SetIsReplayOfAll ==
  /\ (pc = "connected" /\ ircStatusNotices /\ HasSet(channelUsers))
       => channelUsers[TargetKey] = replayAll
  /\ OnlyPresenceEventsTrack

\* C17 as amended: the same, where only a Quit of a nick other than the
\* bridge's own removes the nick (a Quit of the bridge's own nick is ignored).
C17_SetIsReplayOfOthers ==
  /\ (pc = "connected" /\ ircStatusNotices /\ HasSet(channelUsers))
       => channelUsers[TargetKey] = replayOthers
  /\ OnlyPresenceEventsTrack

\* the bridge's own nick, listed by Names, has quit with the target channel in
\* its list and is still tracked, next to another tracked nick
C17_Witness ==
  /\ Delivered({ "quit" })
  /\ ircStatusNotices
  /\ event.nick = ircNickname
  /\ \E i \in DOMAIN event.channels : IsTarget(event.channels[i])
  /\ HasSet(channelUsers)
  /\ channelUsers[TargetKey] = { ircNickname, "alice" }
  /\ replayOthers = { ircNickname, "alice" }

----------------------------------------------------------------------------
(* C18 *)

\* C18: the membership map never has a key other than the lower-cased
\* configured target channel (so at most one key), and a Join, Part or Names
\* for another channel, or a Quit that lists only other channels, leaves the
\* map exactly as it was.
C18_OnlyTargetKey ==
  pc = "connected" =>
    /\ DOMAIN channelUsers \subseteq { toLowerCase(options.ircChannel) }
    /\ Cardinality(DOMAIN channelUsers) <= 1
    /\ (event.type \in { "join", "part", "names" } /\ ~IsTarget(event.channel))
         => channelUsers = prevUsers
    /\ (event.type = "quit"
          /\ \A i \in DOMAIN event.channels : ~IsTarget(event.channels[i]))
         => channelUsers = prevUsers

\* members of the target channel are tracked, and a Names event listing
\* members of another channel has changed nothing
C18_Witness ==
  /\ Delivered({ "names" })
  /\ ircStatusNotices
  /\ ~IsTarget(event.channel)
  /\ DOMAIN event.nicks = { "alice" }
  /\ DOMAIN prevUsers = { TargetKey }
  /\ prevUsers[TargetKey] = { "bot", "bob" }
  /\ channelUsers = prevUsers

----------------------------------------------------------------------------
(* C19 *)

====
